---------------------------- MODULE Spec2Model ----------------------------
(***************************************************************************)
(* Translator backend (main.py): the POST /translate proxy handler and the *)
(* GET /themes listing handler.                                            *)
(*                                                                         *)
(* Texts are sequences of one-character strings; JSON / Python values are  *)
(* records [type, str, num] so that values of different Python types stay  *)
(* comparable.  Message strings that the code builds by concatenation are  *)
(* sequences of string pieces (fixed pieces followed by characters).       *)
(***************************************************************************)
EXTENDS Integers, Sequences, FiniteSets, TLC

(***************************************************************************)
(* Bounds of the model.                                                    *)
(***************************************************************************)
\* longest request text
MaxTextLen == 2
\* how far the longest provider body exceeds the detail cut-off
MaxBodyOver == 1
\* longest list of documents the storage collaborator returns
MaxDocs == 2

(***************************************************************************)
(* Program constants.                                                      *)
(***************************************************************************)
\* requests.post(..., timeout=15)
timeout == 15
\* resp.text[:200]
DetailLimit == 200
\* list_themes(limit: Optional[int] = 50)
DefaultLimit == 50

(***************************************************************************)
(* Python / JSON values.                                                   *)
(***************************************************************************)
\* None (JSON null); also what dict.get returns for a missing key
None == [type |-> "null", str |-> <<>>, num |-> 0]
JStr(s) == [type |-> "string", str |-> s, num |-> 0]
JNum(n) == [type |-> "number", str |-> <<>>, num |-> n]
JBool(b) == [type |-> "bool", str |-> <<>>, num |-> IF b THEN 1 ELSE 0]
\* a JSON array with n elements
JArr(n) == [type |-> "array", str |-> <<>>, num |-> n]

\* Python truth value of v, as tested by `not translated`
Truthy(v) ==
    CASE v.type = "null" -> FALSE
      [] v.type = "string" -> Len(v.str) > 0
      [] v.type = "number" -> v.num # 0
      [] v.type = "bool" -> v.num # 0
      [] v.type = "array" -> v.num > 0

\* s[:n]
Take(s, n) == SubSeq(s, 1, IF Len(s) < n THEN Len(s) ELSE n)

(***************************************************************************)
(* str.strip()                                                             *)
(***************************************************************************)
Whitespace == {" ", "\n"}

RECURSIVE lstrip(_)
lstrip(s) ==
    IF s = <<>> THEN s
    ELSE IF Head(s) \in Whitespace THEN lstrip(Tail(s)) ELSE s

RECURSIVE rstrip(_)
rstrip(s) ==
    IF s = <<>> THEN s
    ELSE IF s[Len(s)] \in Whitespace THEN rstrip(SubSeq(s, 1, Len(s) - 1)) ELSE s

strip(s) == rstrip(lstrip(s))

(***************************************************************************)
(* The request body of POST /translate and its TranslateRequest model.     *)
(***************************************************************************)
TextChars == Whitespace \cup {"a"}

Texts == UNION {[1..n -> TextChars] : n \in 0..MaxTextLen}

\* the JSON body's "source": left out, null, or a string
Sources ==
    {[given |-> "omitted", s |-> ""], [given |-> "null", s |-> ""]}
        \cup {[given |-> "str", s |-> c] : c \in {"", "en"}}

Targets == {"es", "fr"}

Bodies == [text : Texts, source : Sources, target : Targets]

\* Field("auto"): the default fills in an omitted source; null stays None
TranslateRequest(raw) ==
    [text |-> raw.text,
     source |-> CASE raw.source.given = "omitted" -> [isNone |-> FALSE, s |-> "auto"]
                  [] raw.source.given = "null" -> [isNone |-> TRUE, s |-> ""]
                  [] OTHER -> [isNone |-> FALSE, s |-> raw.source.s],
     target |-> raw.target]

\* Field(..., min_length=1) on text
ValidationFails(raw) == Len(raw.text) < 1

\* mutant of TextIsBlank: the text is tested without strip()
TextIsBlank_NoStrip(text) == text = <<>>

\* `not req.text.strip()`
TextIsBlank(text) == strip(text) = <<>>

\* mutant of EffectiveSource: req.source is sent as it is, without `or "auto"`
EffectiveSource_NoDefault(source) == source.s

\* `req.source or "auto"`
EffectiveSource(source) ==
    IF source.isNone \/ source.s = "" THEN "auto" ELSE source.s

\* the form data of the outbound call
Payload(req) ==
    [q |-> req.text, source |-> EffectiveSource(req.source),
     target |-> req.target, format |-> "text"]

(***************************************************************************)
(* The provider and requests.post                                          *)
(***************************************************************************)
\* characters 1..n of a provider body; the ones past the cut-off differ
BodyText(n) == [i \in 1..n |-> IF i > DetailLimit THEN "z" ELSE "x"]

BodyTexts == {BodyText(n) : n \in {0, 1, DetailLimit, DetailLimit + MaxBodyOver}}

\* what resp.json() yields: a decoding failure, a JSON value that is not
\* an object, or an object with or without the key translatedText
NoJson == [kind |-> "invalid", has |-> FALSE, value |-> None]
Hola == <<"H", "o", "l", "a">>
JsonValues ==
    {None, JStr(<<>>), JStr(Hola), JStr(<<" ">>), JNum(0), JNum(42),
     JBool(FALSE), JBool(TRUE), JArr(0), JArr(1)}
JsonResults ==
    {NoJson,
     [kind |-> "other", has |-> FALSE, value |-> None],
     [kind |-> "object", has |-> FALSE, value |-> None]}
        \cup {[kind |-> "object", has |-> TRUE, value |-> v] : v \in JsonValues}

\* the provider's replies: resp.text is read only when the status is not 200
\* and resp.json() only when it is, so each kind varies what the code reads
ErrorResponses ==
    [status_code : {404, 503}, text : BodyTexts,
     json : {NoJson, [kind |-> "object", has |-> TRUE, value |-> JStr(Hola)]}]
OkResponses ==
    [status_code : {200}, text : {BodyText(0), BodyText(1)}, json : JsonResults]
Responses == ErrorResponses \cup OkResponses

NoResponse == [status_code |-> 0, text |-> <<>>, json |-> NoJson]

\* how the provider and the network behave for one outbound call: the
\* network fails with a message, or the provider answers after `delay`
Behaviours ==
    {[net |-> e, delay |-> 0, resp |-> NoResponse] :
        e \in {"Connection refused", "Name or service not known"}}
    \cup {[net |-> "ok", delay |-> timeout + 1, resp |-> NoResponse]}
    \cup {[net |-> "ok", delay |-> timeout - 1, resp |-> r] : r \in Responses}

(***************************************************************************)
(* Exceptions and try-block results.                                       *)
(***************************************************************************)
HTTPException(code, msg) == [cls |-> "HTTPException", status_code |-> code, detail |-> msg]
Timeout == [cls |-> "Timeout", status_code |-> 0, detail |-> <<"timed out">>]
OtherException(cls, msg) == [cls |-> cls, status_code |-> 0, detail |-> <<msg>>]
NoException == [cls |-> "none", status_code |-> 0, detail |-> <<>>]

\* str(e); Starlette's HTTPException prints "<status_code>: <detail>"
str(e) ==
    IF e.cls = "HTTPException"
    THEN <<ToString(e.status_code), ": ">> \o e.detail
    ELSE e.detail

Raise(e) == [raised |-> TRUE, exc |-> e, value |-> None]
Return(v) == [raised |-> FALSE, exc |-> NoException, value |-> v]

\* requests.post(url, data=..., timeout=15)
requests_post(b) ==
    IF b.net # "ok" THEN Raise(OtherException("ConnectionError", b.net))
    ELSE IF b.delay > timeout THEN Raise(Timeout)
    ELSE [raised |-> FALSE, exc |-> NoException, value |-> b.resp]

\* mutant of GetTranslatedText: the key is misspelt, so get() finds nothing
GetTranslatedText_WrongKey(json) ==
    CASE json.kind = "invalid" ->
            [raised |-> TRUE,
             exc |-> [cls |-> "JSONDecodeError", status_code |-> 0,
                      detail |-> <<"Expecting value">>],
             value |-> None]
      [] json.kind = "other" ->
            [raised |-> TRUE,
             exc |-> [cls |-> "AttributeError", status_code |-> 0,
                      detail |-> <<"object has no attribute 'get'">>],
             value |-> None]
      [] OTHER -> [raised |-> FALSE,
                   exc |-> [cls |-> "none", status_code |-> 0, detail |-> <<>>],
                   value |-> None]

\* resp.json() followed by data.get("translatedText")
GetTranslatedText(json) ==
    CASE json.kind = "invalid" ->
            Raise(OtherException("JSONDecodeError", "Expecting value"))
      [] json.kind = "other" ->
            Raise(OtherException("AttributeError", "object has no attribute 'get'"))
      [] OTHER -> Return(IF json.has THEN json.value ELSE None)

\* the body of the try block once the call has returned resp
AfterPost(resp) ==
    IF resp.status_code # 200
    THEN Raise(HTTPException(502,
                 <<"Translation service error: ">> \o Take(resp.text, DetailLimit)))
    ELSE LET got == GetTranslatedText(resp.json) IN
         IF got.raised THEN got
         ELSE IF ~Truthy(got.value)
              THEN Raise(HTTPException(502,
                           <<"Invalid response from translation service">>))
              ELSE Return(got.value)

\* the body of the try block
TryBody(b) ==
    LET post == requests_post(b) IN
    IF post.raised THEN post ELSE AfterPost(post.value)

\* an HTTP response of this service; translated is None unless it is a result
ErrorResponse(code, detail) ==
    [status_code |-> code, detail |-> detail, translated |-> None]
ResultResponse(translated) ==
    [status_code |-> 200, detail |-> <<>>, translated |-> translated]

\* mutant of Except: the requests.Timeout clause is missing
Except_NoTimeoutClause(e) == ErrorResponse(500, str(e))

\* mutant of Except: the generic clause reports a fixed message, not str(e)
Except_DropsCause(e) ==
    IF e.cls = "Timeout"
    THEN ErrorResponse(504, <<"Translation service timeout">>)
    ELSE ErrorResponse(500, <<"Internal Server Error">>)

\* the except clauses, in their order: requests.Timeout first, then Exception
\* (which every exception raised in the try block is, HTTPException included)
Except(e) ==
    IF e.cls = "Timeout"
    THEN ErrorResponse(504, <<"Translation service timeout">>)
    ELSE ErrorResponse(500, str(e))

\* the try statement of translate
TryStatement(b) ==
    LET r == TryBody(b) IN
    IF r.raised THEN Except(r.exc) ELSE ResultResponse(r.value)

NoBody == [text |-> <<>>, source |-> [given |-> "omitted", s |-> ""], target |-> "es"]
NoBehaviour == [net |-> "ok", delay |-> 0, resp |-> NoResponse]
NoAnswer == ErrorResponse(0, <<>>)

(***************************************************************************)
(* State.                                                                  *)
(***************************************************************************)
VARIABLES
    pc,         \* "idle", "posting" (the outbound call is in flight), "done"
    body,       \* the request body of the POST /translate being handled
    outbound,   \* the payloads sent to the provider while handling it
    outcome,    \* how network and provider behaved for the outbound call
    response,   \* the response to the caller
    query,      \* GET /themes: the arguments passed to get_documents
    stored,     \* GET /themes: what get_documents returned
    themes      \* GET /themes: the response to the caller

vars == <<pc, body, outbound, outcome, response, query, stored, themes>>
translateVars == <<pc, body, outbound, outcome, response>>
themesVars == <<query, stored, themes>>

(***************************************************************************)
(* GET /themes: documents and the storage collaborator.                    *)
(***************************************************************************)
OID(x) == [type |-> "ObjectId", v |-> x]
SVal(x) == [type |-> "str", v |-> x]

\* str(v) of a document value: an ObjectId prints as its hex digits
StrOf(v) == [type |-> "str", v |-> v.v]

Fields == {"_id", "id", "name"}

\* the values a key may have
DocValues(f) ==
    CASE f = "_id" -> {OID("65a1"), OID("65a2")}
      [] f = "id" -> {SVal("mine")}
      [] f = "name" -> {SVal("dark")}

\* a document is a function from the keys it has to their values
Docs ==
    UNION {{d \in [F -> UNION {DocValues(f) : f \in F}] :
                \A f \in F : d[f] \in DocValues(f)} : F \in SUBSET Fields}

DocLists == UNION {[1..n -> Docs] : n \in 0..MaxDocs}

\* what get_documents("theme", limit=limit) does: raises, or returns a list
StorageResults ==
    {[raised |-> TRUE, msg |-> m, docs |-> <<>>] :
        m \in {"Database not available", "ServerSelectionTimeoutError"}}
    \cup {[raised |-> FALSE, msg |-> "", docs |-> l] : l \in DocLists}

\* the limit query parameter: left out, or an integer
LimitParams == {[given |-> FALSE, n |-> 0], [given |-> TRUE, n |-> 1]}

\* mutant of ReKey: `del d["_id"]` is missing
ReKey_KeepsId(d) ==
    IF "_id" \in DOMAIN d
    THEN [f \in DOMAIN d \cup {"id"} |-> IF f = "id" THEN StrOf(d["_id"]) ELSE d[f]]
    ELSE d

\* the body of the loop: d["id"] = str(d["_id"]); del d["_id"]
ReKey(d) ==
    IF "_id" \in DOMAIN d
    THEN [f \in (DOMAIN d \ {"_id"}) \cup {"id"} |->
            IF f = "id" THEN StrOf(d["_id"]) ELSE d[f]]
    ELSE d

\* the loop over docs
ReKeyAll(docs) == [i \in 1..Len(docs) |-> ReKey(docs[i])]

NoQuery == [collection |-> "", limit |-> 0]
NoStored == [raised |-> FALSE, msg |-> "", docs |-> <<>>]
NoThemes == [status_code |-> 0, items |-> <<>>, detail |-> <<>>]

(***************************************************************************)
(* Initial state: nothing has been requested yet.                          *)
(***************************************************************************)
Init ==
    /\ pc = "idle"
    /\ body = NoBody
    /\ outbound = <<>>
    /\ outcome = NoBehaviour
    /\ response = NoAnswer
    /\ query = NoQuery
    /\ stored = NoStored
    /\ themes = NoThemes

(***************************************************************************)
(* POST /translate, up to and including the sending of the outbound call:  *)
(* the framework validates the body against TranslateRequest (422 when it  *)
(* fails), then the handler rejects blank text (400) or posts the payload. *)
(* Each request is handled from scratch; nothing is kept from the last.    *)
(***************************************************************************)
translate(raw) ==
    /\ pc \in {"idle", "done"}
    /\ body' = raw
    /\ outcome' = NoBehaviour
    /\ IF ValidationFails(raw)
       THEN /\ pc' = "done"
            /\ outbound' = <<>>
            /\ response' = ErrorResponse(422, <<"String should have at least 1 character">>)
       ELSE LET req == TranslateRequest(raw) IN
            IF TextIsBlank(req.text)
            THEN /\ pc' = "done"
                 /\ outbound' = <<>>
                 /\ response' = ErrorResponse(400, <<"Text cannot be empty">>)
            ELSE /\ pc' = "posting"
                 /\ outbound' = <<Payload(req)>>
                 /\ response' = NoAnswer
    /\ UNCHANGED themesVars

(***************************************************************************)
(* The outbound call completes (returns or raises) and the rest of the     *)
(* handler maps it to the response.                                        *)
(***************************************************************************)
PostCompletes(b) ==
    /\ pc = "posting"
    /\ outcome' = b
    /\ response' = TryStatement(b)
    /\ pc' = "done"
    /\ UNCHANGED <<body, outbound>>
    /\ UNCHANGED themesVars

(***************************************************************************)
(* GET /themes                                                             *)
(***************************************************************************)
list_themes(param, result) ==
    /\ query' = [collection |-> "theme",
                 limit |-> IF param.given THEN param.n ELSE DefaultLimit]
    /\ stored' = result
    /\ themes' = IF result.raised
                 THEN [status_code |-> 500, items |-> <<>>, detail |-> <<result.msg>>]
                 ELSE [status_code |-> 200, items |-> ReKeyAll(result.docs),
                       detail |-> <<>>]
    /\ UNCHANGED translateVars

Next ==
    \/ \E raw \in Bodies : translate(raw)
    \/ \E b \in Behaviours : PostCompletes(b)

Spec == Init /\ [][Next]_vars

ThemesNext == \E param \in LimitParams, result \in StorageResults : list_themes(param, result)

ThemesSpec == Init /\ [][ThemesNext]_vars

(***************************************************************************)
(* Vocabulary of the properties.                                           *)
(***************************************************************************)
\* the text has at least one character that is not whitespace
HasVisibleChar(text) == \E i \in 1..Len(text) : text[i] \notin Whitespace

\* the request has been answered
Answered == pc = "done"

\* the provider's reply arrived within the time bound
Replied == outcome.net = "ok" /\ outcome.delay <= timeout

\* piece occurs in s
Contains(s, piece) ==
    \E i \in 1..(Len(s) - Len(piece) + 1) : SubSeq(s, i, i + Len(piece) - 1) = piece

\* the first DetailLimit characters of the provider's body
BodyPrefix ==
    [i \in 1..(IF Len(outcome.resp.text) < DetailLimit
               THEN Len(outcome.resp.text) ELSE DetailLimit) |-> outcome.resp.text[i]]

(***************************************************************************)
(* C1: a request whose text is empty or only whitespace is answered with   *)
(* status 400 (InvalidInput), whatever source and target are.              *)
(***************************************************************************)
C1_BlankTextIs400 ==
    (Answered /\ ~HasVisibleChar(body.text)) => response.status_code = 400

(***************************************************************************)
(* C2: with valid text, a provider reply whose status is not 200 is        *)
(* answered with status 502 and a detail that contains the first 200       *)
(* characters of the provider's body.                                      *)
(***************************************************************************)
C2_Non200Is502 ==
    (Answered /\ HasVisibleChar(body.text) /\ Replied
        /\ outcome.resp.status_code # 200)
    => (response.status_code = 502 /\ Contains(response.detail, BodyPrefix))

(***************************************************************************)
(* C3: with valid text, a provider reply with status 200 whose body does   *)
(* not parse as the expected structure, or whose translatedText is missing *)
(* or empty, is answered with status 502 and the generic invalid-response  *)
(* detail.                                                                 *)
(***************************************************************************)
C3_Malformed200Is502 ==
    (Answered /\ HasVisibleChar(body.text) /\ Replied
        /\ outcome.resp.status_code = 200
        /\ (\/ outcome.resp.json.kind # "object"
            \/ ~outcome.resp.json.has
            \/ outcome.resp.json.value
                 = [type |-> "string", str |-> <<>>, num |-> 0]))
    => (response.status_code = 502
        /\ response.detail = <<"Invalid response from translation service">>)

(***************************************************************************)
(* C4: with valid text, an outbound call that exceeds its timeout is       *)
(* answered with status 504, never with 500.                               *)
(***************************************************************************)
C4_TimeoutIs504 ==
    (Answered /\ HasVisibleChar(body.text)
        /\ outcome.net = "ok" /\ outcome.delay > timeout)
    => response.status_code = 504

C4_Witness ==
    /\ Answered /\ HasVisibleChar(body.text)
    /\ outcome.net = "ok" /\ outcome.delay > timeout
    /\ Len(outbound) = 1
    /\ response.status_code = 504

(***************************************************************************)
(* C5: with valid text, a provider reply with status 200 whose             *)
(* translatedText is a non-empty string v is answered with status 200 and  *)
(* translated = v, exactly the provider's value.                           *)
(***************************************************************************)
C5_SuccessReturnsProviderValue ==
    (Answered /\ HasVisibleChar(body.text) /\ Replied
        /\ outcome.resp.status_code = 200
        /\ outcome.resp.json.kind = "object" /\ outcome.resp.json.has
        /\ outcome.resp.json.value.type = "string"
        /\ Len(outcome.resp.json.value.str) > 0)
    => (response.status_code = 200
        /\ response.translated = outcome.resp.json.value)

C5_Witness ==
    /\ Answered /\ HasVisibleChar(body.text) /\ Replied
    /\ outcome.resp.status_code = 200
    /\ outcome.resp.json.kind = "object" /\ outcome.resp.json.has
    /\ outcome.resp.json.value.str = <<"H", "o", "l", "a">>
    /\ response.status_code = 200
    /\ response.translated.str = <<"H", "o", "l", "a">>

(***************************************************************************)
(* C6: while a request is handled, no outbound call is made when its text  *)
(* is empty after trimming and exactly one is made otherwise; no failure   *)
(* outcome leads to a second attempt.                                      *)
(***************************************************************************)
C6_AtMostOneCall ==
    pc # "idle" =>
        Len(outbound) = IF HasVisibleChar(body.text) THEN 1 ELSE 0

C6_Witness ==
    /\ Answered
    /\ response.status_code \in {500, 504}
    /\ Len(outbound) = 1

(***************************************************************************)
(* C7: the source sent to the provider is "auto" when the request's source *)
(* is omitted, null or the empty string, and the request's source          *)
(* otherwise.                                                              *)
(***************************************************************************)
C7_SourceDefaultsToAuto ==
    \A i \in 1..Len(outbound) :
        outbound[i].source =
            IF body.source.given \in {"omitted", "null"} \/ body.source.s = ""
            THEN "auto" ELSE body.source.s

C7_Witness ==
    /\ Len(outbound) = 1
    /\ body.source.given = "null"
    /\ outbound[1].source = "auto"

(***************************************************************************)
(* C8: with valid text, an outbound call that fails with an exception      *)
(* other than a timeout is answered with status 500 and the stringified    *)
(* cause as detail.                                                        *)
(***************************************************************************)
C8_OtherFailureIs500 ==
    (Answered /\ HasVisibleChar(body.text) /\ outcome.net # "ok")
    => (response.status_code = 500 /\ response.detail = <<outcome.net>>)

C8_Witness ==
    /\ Answered /\ HasVisibleChar(body.text)
    /\ outcome.net = "Connection refused"
    /\ response.status_code = 500

(***************************************************************************)
(* C9: in a successful GET /themes the items are the stored documents in   *)
(* the order storage returned them; no item has an `_id` key; an item      *)
(* whose document had an `_id` has `id` equal to the string form of that   *)
(* `_id`; every other field is returned unchanged and none is added.       *)
(***************************************************************************)
C9_ItemsAreReKeyedDocs ==
    themes.status_code = 200 =>
        /\ Len(themes.items) = Len(stored.docs)
        /\ \A i \in 1..Len(stored.docs) :
            LET d == stored.docs[i]
                item == themes.items[i]
            IN /\ "_id" \notin DOMAIN item
               /\ "_id" \in DOMAIN d =>
                    /\ "id" \in DOMAIN item
                    /\ item["id"] = [type |-> "str", v |-> d["_id"].v]
               /\ "_id" \notin DOMAIN d => DOMAIN item = DOMAIN d
               /\ DOMAIN item \subseteq (DOMAIN d \ {"_id"}) \cup {"id"}
               /\ \A f \in DOMAIN d \ {"_id"} :
                    /\ f \in DOMAIN item
                    /\ (f # "id" \/ "_id" \notin DOMAIN d) => item[f] = d[f]

C9_Witness ==
    /\ themes.status_code = 200
    /\ Len(themes.items) = 2
    /\ DOMAIN stored.docs[1] = {"_id", "name"}
    /\ DOMAIN stored.docs[2] = {"id"}
    /\ DOMAIN themes.items[1] = {"id", "name"}
    /\ themes.items[1]["id"].type = "str"
    /\ themes.items[2] = stored.docs[2]

(***************************************************************************)
(* C10: a 200 response is produced only if the text had a non-whitespace   *)
(* character, the outbound call completed with status 200 and the          *)
(* provider's translatedText was present and non-empty; the returned       *)
(* translated value is then a non-empty string.                            *)
(***************************************************************************)
C10_ResultOnlyOnSuccess ==
    (Answered /\ response.status_code = 200) =>
        /\ HasVisibleChar(body.text)
        /\ Replied
        /\ outcome.resp.status_code = 200
        /\ outcome.resp.json.kind = "object" /\ outcome.resp.json.has
        /\ outcome.resp.json.value.type # "null"
        /\ outcome.resp.json.value # [type |-> "string", str |-> <<>>, num |-> 0]
        /\ response.translated.type = "string"
        /\ Len(response.translated.str) > 0

====
